---- MODULE Spec2Model ----
(***************************************************************************)
(* A model of the quote0 Go SDK: the fixed-interval rate limiter           *)
(* (ratelimit.go), the client and its dispatch pipeline (client.go,        *)
(* text.go, image.go) and the helpers they call.                           *)
(*                                                                         *)
(* Strings are sequences of one-character strings, byte slices are         *)
(* sequences of 0..255, instants and durations are integers counted in     *)
(* clock ticks.  The zero time.Time is the instant 0; the wall clock       *)
(* starts at 1 and never reads 0.                                          *)
(***************************************************************************)
EXTENDS Integers, Sequences, FiniteSets, TLC

\* --------------------------------------------------------------- bounds
\* Clock ticks in one time.Second (the resolution of the model's clock).
Second == 2
\* The wall clock advances freely up to MaxTime, and beyond it only while
\* some caller still sleeps on a timer.
MaxTime == 3
\* Calls started in one run: Wait calls and sequential dispatches (MaxCalls),
\* concurrent dispatches in time (TimingCalls), dispatches and
\* SetDefaultDeviceID (DeviceCalls), image dispatches (ImageCalls).
MaxCalls == 3
TimingCalls == 2
\* Dispatches whose response is looked at.
ResponseCalls == 1
\* Dispatches whose request body is looked at.
BodyCalls == 2
\* Dispatches of a client built from a token.
TokenCalls == 2
\* Dispatches that may fail at any step.
FailureCalls == 2
\* Wait calls on a limiter made with an interval that is none.
CoercionCalls == 2
\* Wait calls under a fair scheduler.
LiveCalls == 3
\* Pieces of a value given to WithBaseURL, and dispatches of such a client.
MaxURLLen == 3
URLCalls == 1
\* Members of a JSON object in a response body.
MaxMembers == 2
DeviceCalls == 2
ImageCalls == 2

\* The goroutines that call into the limiter or the client.
Procs == {"g1", "g2", "g3"}
NoProc == "none"

\* Arguments given to NewFixedIntervalLimiter, in ticks.
IntervalArgs == {-1, 0, 1, 3}

\* ------------------------------------------------------------- strings
\* unicode.IsSpace, restricted to the alphabet of the model.
IsSpace(c) == c = " "

RECURSIVE TrimLeft(_)
TrimLeft(s) ==
    IF Len(s) > 0 /\ IsSpace(Head(s)) THEN TrimLeft(Tail(s)) ELSE s

RECURSIVE TrimRight(_)
TrimRight(s) ==
    IF Len(s) > 0 /\ IsSpace(s[Len(s)])
    THEN TrimRight(SubSeq(s, 1, Len(s) - 1))
    ELSE s

\* strings.TrimSpace
TrimSpace(s) == TrimRight(TrimLeft(s))

\* strings.TrimRight(s, "/")
RECURSIVE TrimRightSlash(_)
TrimRightSlash(s) ==
    IF Len(s) > 0 /\ s[Len(s)] = "/"
    THEN TrimRightSlash(SubSeq(s, 1, Len(s) - 1))
    ELSE s

DefaultBaseURL == <<"https:", "/", "/", "dot.mindreset.tech">>

\* sanitizeBaseURL
sanitizeBaseURL(b) ==
    LET trimmed == TrimSpace(b)
    IN  IF trimmed = <<>> THEN DefaultBaseURL ELSE TrimRightSlash(trimmed)

\* NewClient with WithBaseURL(b): the value given and c.baseURL.
NewClientBaseURL(b) == [arg |-> b, url |-> sanitizeBaseURL(b)]

\* ---------------------------------------------------------- rate limiter
\* A constructor that keeps the interval it is given.
NewFixedIntervalLimiterAsGiven(interval) == interval

\* NewFixedIntervalLimiter: the minInterval of the limiter it returns.
NewFixedIntervalLimiter(interval) ==
    IF interval <= 0 THEN Second ELSE interval

\* time.Time.IsZero
IsZero(t) == t = 0

\* Every caller starting its own clock: the slot is the instant of the call.
ScheduleOwnClock(t, nxt, interval) ==
    [wait |-> 0, start |-> t, next |-> t + interval]

\* A schedule that goes on from the stored instant even when it has passed.
ScheduleFromStored(t, nxt, interval) ==
    LET start == IF IsZero(nxt) THEN t ELSE nxt
        wait  == IF t < start THEN start - t ELSE 0
    IN  [wait |-> wait, start |-> start, next |-> start + interval]

\* fixedIntervalLimiter.Wait, the critical section: from the instant t read
\* by time.Now(), the stored l.next and l.minInterval, the duration to wait,
\* the slot of this call and the new l.next.
Schedule(t, nxt, interval) ==
    LET late  == ~IsZero(nxt) /\ t < nxt
        wait  == IF late THEN nxt - t ELSE 0
        start == IF late THEN nxt ELSE t
    IN  [wait |-> wait, start |-> start, next |-> start + interval]

VARIABLES
    now,            \* the wall clock, what time.Now() returns
    opt,            \* the options NewClient was called with
    limiter,        \* c.limiter: "nil" or "fixed"
    minInterval,    \* fixedIntervalLimiter.minInterval
    newClient,      \* what NewClient was given as token and what it returned
    baseURL,        \* what WithBaseURL was given, and c.baseURL
    server,         \* the answers the server may give to a request
    next,           \* fixedIntervalLimiter.next
    mu,             \* fixedIntervalLimiter.mu: the goroutine holding it
    defaultDevice,  \* c.defaultDevice
    cmu,            \* c.mu: the goroutine holding it for writing
    held,           \* the values c.defaultDevice was set to so far
    proc,           \* per goroutine: position, arguments and locals
    last,           \* the call that returned last: arguments and result
    wire,           \* the HTTP request that reached the network last
    sched,          \* the slots the limiter assigned, in order of assignment
    budget          \* calls the callers may still start

\* Fixed when the limiter or the client is constructed.
conf == <<opt, limiter, minInterval, newClient, baseURL, server>>
\* The client's default device id and its lock.
dev == <<defaultDevice, cmu, held>>

vars == <<now, conf, next, mu, dev, proc, last, wire, sched, budget>>

\* NewClient called with no option at all.
NoOptions == [limiter |-> "unset", interval |-> 0, device |-> <<>>]

ErrNil == "nil"
CtxErr == "context canceled"

\* No request on the network yet.
NoRequest == [at |-> 0, slot |-> 0]
\* No earlier request to measure the distance from.
NoGap == [at |-> -1, slot |-> -1]

\* A call made on SendText or SendImage itself, not through a wrapper.
NoCall == [fn |-> "none", arg |-> <<>>, meta |-> <<>>]

\* No response received.
NoResponse == [status |-> 0, ctype |-> <<>>, body |-> <<>>, readOK |-> TRUE]
\* The zero APIResponse and the zero APIError.
NoOut ==
    [Code |-> 0, Message |-> <<>>, Result |-> <<>>, StatusCode |-> 0,
     RawBody |-> <<>>]
NoAPIError ==
    [StatusCode |-> 0, Code |-> <<>>, Message |-> <<>>, RawBody |-> <<>>]

\* A goroutine outside any call.  Of a call that returned, resp is the
\* response the server gave, out the *APIResponse and apiErr the *APIError
\* returned, auth the Authorization header and url the URL of its request.
IdleProc ==
    [pc |-> "idle", kind |-> "none", by |-> NoProc, call |-> NoCall,
     resp |-> NoResponse, out |-> NoOut, apiErr |-> NoAPIError,
     auth |-> <<>>, url |-> <<>>,
     ctxDone |-> FALSE, ctxEarly |-> FALSE,
     req |-> <<>>, did |-> <<>>, defRead |-> <<>>, image |-> <<>>,
     seq |-> FALSE, gap |-> NoGap, lag |-> 0,
     wait |-> 0, start |-> 0, deadline |-> 0,
     waitRet |-> "none", ret |-> "none", sent |-> <<>>,
     nWait |-> 0, nHttp |-> 0, nRead |-> 0]

\* The locals of a goroutine entering a call with a context that is already
\* cancelled (cancelled = TRUE) or still live.  ctxEarly records that the
\* context was cancelled before the instant scheduled for the call; seq
\* records that a request reached the network before the call started, and
\* none since.  Of a call that returned, by is the goroutine that made it,
\* gap the distance of its request from the request before it, in network
\* instants and in limiter slots, and lag how long after its slot its request
\* reached the network.
NewCall(kind, cancelled) ==
    [IdleProc EXCEPT !.kind = kind, !.seq = wire # NoRequest,
                     !.ctxDone = cancelled, !.ctxEarly = cancelled]

\* The call of goroutine p, with locals q, returns err to its caller.
Return(p, q, err) ==
    /\ proc' = [proc EXCEPT ![p] = IdleProc]
    /\ last' = [q EXCEPT !.by = p, !.pc = "idle", !.ret = err,
                         !.ctxDone = FALSE, !.wait = 0, !.start = 0,
                         !.deadline = 0, !.seq = FALSE]

\* ----------------------------------------------- fixedIntervalLimiter.Wait
\* A doJSON that goes on to the HTTP request whatever Wait returned.
AfterWaitIgnoringError(p, q, err) ==
    IF q.kind = "wait"
    THEN Return(p, [q EXCEPT !.waitRet = err], err)
    ELSE /\ proc' = [proc EXCEPT ![p] = [q EXCEPT !.pc = "http",
                                                  !.waitRet = err]]
         /\ UNCHANGED last

\* What the caller of Wait does with its result: a direct caller returns it;
\* doJSON returns the error, or goes on to the HTTP request.
AfterWait(p, q, err) ==
    IF q.kind = "wait" \/ err # ErrNil
    THEN Return(p, [q EXCEPT !.waitRet = err], err)
    ELSE /\ proc' = [proc EXCEPT ![p] = [q EXCEPT !.pc = "http",
                                                  !.waitRet = err]]
         /\ UNCHANGED last

\* A goroutine calls Wait(ctx) on the limiter directly.
WaitCall(p, cancelled) ==
    /\ proc[p].pc = "idle"
    /\ budget > 0
    /\ budget' = budget - 1
    /\ proc' = [proc EXCEPT ![p] =
                  [NewCall("wait", cancelled) EXCEPT !.pc = "lock", !.nWait = 1]]
    /\ UNCHANGED <<now, conf, next, mu, dev, last, wire, sched>>

\* l.mu.Lock()
WaitLock(p) ==
    /\ proc[p].pc = "lock"
    /\ mu = NoProc
    /\ mu' = p
    /\ proc' = [proc EXCEPT ![p].pc = "crit"]
    /\ UNCHANGED <<now, conf, next, dev, last, wire, sched, budget>>

\* A Wait that unlocks only when it returns at once, and sleeps locked.
WaitAdvanceKeepingLock(p) ==
    /\ proc[p].pc = "crit"
    /\ mu = p
    /\ LET s == Schedule(now, next, minInterval)
           q == [proc[p] EXCEPT !.wait = s.wait, !.start = s.start]
       IN  /\ next' = s.next
           /\ sched' = Append(sched, s.start)
           /\ IF s.wait <= 0
              THEN AfterWait(p, q, ErrNil) /\ mu' = NoProc
              ELSE /\ proc' = [proc EXCEPT ![p] =
                                 [q EXCEPT !.pc = "select",
                                           !.deadline = now + s.wait]]
                   /\ UNCHANGED <<last, mu>>
    /\ UNCHANGED <<now, conf, dev, wire, budget>>

\* now := time.Now() ... l.next = start.Add(l.minInterval); l.mu.Unlock();
\* if wait <= 0 { return nil }; timer := time.NewTimer(wait).
\* The timer is taken to start at the instant time.Now() read, so it fires
\* at the slot; a timer created later fires later, which the clock running
\* on before WaitTimer already covers.
WaitAdvance(p) ==
    /\ proc[p].pc = "crit"
    /\ mu = p
    /\ LET s == Schedule(now, next, minInterval)
           q == [proc[p] EXCEPT !.wait = s.wait, !.start = s.start]
       IN  /\ next' = s.next
           /\ sched' = Append(sched, s.start)
           /\ IF s.wait <= 0
              THEN AfterWait(p, q, ErrNil)
              ELSE /\ proc' = [proc EXCEPT ![p] =
                                 [q EXCEPT !.pc = "select",
                                           !.deadline = now + s.wait]]
                   /\ UNCHANGED last
    /\ mu' = NoProc
    /\ UNCHANGED <<now, conf, dev, wire, budget>>

\* A select without the timer: the call sleeps on its context alone.
WaitTimerAbsent(p) ==
    /\ proc[p].pc = "select"
    /\ FALSE
    /\ UNCHANGED vars

\* case <-timer.C: return nil
WaitTimer(p) ==
    /\ proc[p].pc = "select"
    /\ now >= proc[p].deadline
    /\ AfterWait(p, proc[p], ErrNil)
    /\ UNCHANGED <<now, conf, next, mu, dev, wire, sched, budget>>

\* A cancelled Wait that hands its slot back to the limiter.
WaitCtxDoneGivingBack(p) ==
    /\ proc[p].pc = "select"
    /\ proc[p].ctxDone
    /\ AfterWait(p, proc[p], CtxErr)
    /\ next' = next - minInterval
    /\ UNCHANGED <<now, conf, mu, dev, wire, sched, budget>>

\* case <-ctx.Done(): return ctx.Err()
WaitCtxDone(p) ==
    /\ proc[p].pc = "select"
    /\ proc[p].ctxDone
    /\ AfterWait(p, proc[p], CtxErr)
    /\ UNCHANGED <<now, conf, next, mu, dev, wire, sched, budget>>

\* ---------------------------------------------------------------- helpers
\* The file system readFile sees: the content of each file that exists.
Files == (<<"f">> :> <<137, 80>>) @@ (<<"e">> :> <<>>)

ErrDeviceIDMissing == "quote0: deviceId is required"
ErrImagePayloadMissing == "quote0: image payload is required"
ReadErr == "quote0: read image file"
TransportErr == "quote0: execute request"
APIErr == "quote0: API error"

\* readFile
readFile(path) ==
    IF path \in DOMAIN Files
    THEN [data |-> Files[path], err |-> ErrNil]
    ELSE [data |-> <<>>, err |-> ReadErr]

\* The alphabet of base64.StdEncoding.
B64Chars ==
    <<"A", "B", "C", "D", "E", "F", "G", "H", "I", "J", "K", "L", "M",
      "N", "O", "P", "Q", "R", "S", "T", "U", "V", "W", "X", "Y", "Z",
      "a", "b", "c", "d", "e", "f", "g", "h", "i", "j", "k", "l", "m",
      "n", "o", "p", "q", "r", "s", "t", "u", "v", "w", "x", "y", "z",
      "0", "1", "2", "3", "4", "5", "6", "7", "8", "9", "+", "/">>

B64(n) == B64Chars[n + 1]

\* base64.RawStdEncoding: the same digits without the padding.
RECURSIVE encodeBase64Raw(_)
encodeBase64Raw(b) ==
    IF Len(b) = 0 THEN <<>>
    ELSE IF Len(b) = 1 THEN
        <<B64(b[1] \div 4), B64((b[1] % 4) * 16)>>
    ELSE IF Len(b) = 2 THEN
        <<B64(b[1] \div 4), B64((b[1] % 4) * 16 + b[2] \div 16),
          B64((b[2] % 16) * 4)>>
    ELSE
        <<B64(b[1] \div 4), B64((b[1] % 4) * 16 + b[2] \div 16),
          B64((b[2] % 16) * 4 + b[3] \div 64), B64(b[3] % 64)>>
        \o encodeBase64Raw(SubSeq(b, 4, Len(b)))

\* encodeBase64: base64.StdEncoding.EncodeToString, with padding.
RECURSIVE encodeBase64(_)
encodeBase64(b) ==
    IF Len(b) = 0 THEN <<>>
    ELSE IF Len(b) = 1 THEN
        <<B64(b[1] \div 4), B64((b[1] % 4) * 16), "=", "=">>
    ELSE IF Len(b) = 2 THEN
        <<B64(b[1] \div 4), B64((b[1] % 4) * 16 + b[2] \div 16),
          B64((b[2] % 16) * 4), "=">>
    ELSE
        <<B64(b[1] \div 4), B64((b[1] % 4) * 16 + b[2] \div 16),
          B64((b[2] % 16) * 4 + b[3] \div 64), B64(b[3] % 64)>>
        \o encodeBase64(SubSeq(b, 4, Len(b)))

\* ----------------------------------------------------------------- client
\* A constructor that installs no limiter of its own.
NewClientLimiterNoDefault(o) ==
    IF o.limiter = "fixed"
    THEN [limiter |-> "fixed",
          minInterval |-> NewFixedIntervalLimiter(o.interval)]
    ELSE [limiter |-> "nil", minInterval |-> 0]

\* NewClient: the limiter of the client built with options o.  The default
\* is NewFixedIntervalLimiter(time.Second); WithRateLimiter replaces it by
\* nil or by a limiter of its own interval.
NewClientLimiter(o) ==
    IF o.limiter = "unset" THEN [limiter |-> "fixed",
                                 minInterval |-> NewFixedIntervalLimiter(Second)]
    ELSE IF o.limiter = "nil" THEN [limiter |-> "nil", minInterval |-> 0]
    ELSE [limiter |-> "fixed",
          minInterval |-> NewFixedIntervalLimiter(o.interval)]

ErrTokenRequired == "quote0: API token is required"

\* A constructor that takes the token as it is given.
NewClientUntrimmed(token) ==
    [token |-> token, apiKey |-> token,
     err |-> IF token = <<>> THEN ErrTokenRequired ELSE ErrNil]

\* NewClient(apiKey, opts...): the token given, the apiKey stored and the
\* error returned; with an error there is no client.
NewClient(token) ==
    LET apiKey == TrimSpace(token)
    IN  IF apiKey = <<>>
        THEN [token |-> token, apiKey |-> <<>>, err |-> ErrTokenRequired]
        ELSE [token |-> token, apiKey |-> apiKey, err |-> ErrNil]

\* The token of the clients whose token does not matter.
SomeToken == <<"k">>

\* WithDefaultDeviceID: the default device id of the client built with o.
NewClientDevice(o) == TrimSpace(o.device)

\* A reader that does not wait for the writer to unlock.
RLockNoWait == TRUE

\* c.mu.RLock(): a reader gets the lock when no writer holds it.
RLock == cmu = NoProc

\* A resolution that prefers the client's default to the explicit id.
resolveDeviceIDDefaultFirst(explicit, def) ==
    IF TrimSpace(def) # <<>>
    THEN [id |-> TrimSpace(def), err |-> ErrNil]
    ELSE IF TrimSpace(explicit) # <<>>
         THEN [id |-> TrimSpace(explicit), err |-> ErrNil]
         ELSE [id |-> <<>>, err |-> ErrDeviceIDMissing]

\* Client.resolveDeviceID, given the value def read from c.defaultDevice.
resolveDeviceID(explicit, def) ==
    LET e == TrimSpace(explicit)
    IN  IF e # <<>>
        THEN [id |-> e, err |-> ErrNil]
        ELSE LET id == TrimSpace(def)
             IN  IF id = <<>>
                 THEN [id |-> <<>>, err |-> ErrDeviceIDMissing]
                 ELSE [id |-> id, err |-> ErrNil]

\* The zero values of the request structs: a struct literal leaves the
\* fields it does not name at these.
ZeroTextRequest ==
    [RefreshNow |-> "nil", DeviceID |-> <<>>, Title |-> <<>>,
     Message |-> <<>>, Signature |-> <<>>, Icon |-> <<>>, Link |-> <<>>]
ZeroImageRequest ==
    [RefreshNow |-> "nil", DeviceID |-> <<>>, Image |-> <<>>,
     ImageBytes |-> <<>>, ImagePath |-> <<>>, Link |-> <<>>, Border |-> 0,
     DitherType |-> <<>>, DitherKernel |-> <<>>]

ErrTitleMissing == "quote0: title is required"
ErrMessageMissing == "quote0: message is required"

\* A validation that asks for a title and a message as well.
TextValidateStrict(r) ==
    IF TrimSpace(r.DeviceID) = <<>> THEN ErrDeviceIDMissing
    ELSE IF TrimSpace(r.Title) = <<>> THEN ErrTitleMissing
    ELSE IF TrimSpace(r.Message) = <<>> THEN ErrMessageMissing
    ELSE ErrNil

\* TextRequest.validate
TextValidate(r) ==
    IF TrimSpace(r.DeviceID) = <<>> THEN ErrDeviceIDMissing ELSE ErrNil

\* ImageRequest.validate
ImageValidate(did, image) ==
    IF TrimSpace(did) = <<>> THEN ErrDeviceIDMissing
    ELSE IF TrimSpace(image) = <<>> THEN ErrImagePayloadMissing
    ELSE ErrNil

\* A normalization that lets the raw bytes win over the pre-encoded field.
NormalizeImageBytesFirst(r) ==
    IF Len(r.ImageBytes) > 0
    THEN [image |-> encodeBase64(r.ImageBytes), err |-> ErrNil, nRead |-> 0]
    ELSE [image |-> r.Image, err |-> ErrNil, nRead |-> 0]

\* SendImage, the normalization of the image data: the Image field sent,
\* the read failure if any, and how often the file was read.
NormalizeImage(r) ==
    IF TrimSpace(r.Image) # <<>>
    THEN [image |-> r.Image, err |-> ErrNil, nRead |-> 0]
    ELSE IF Len(r.ImageBytes) > 0
    THEN [image |-> encodeBase64(r.ImageBytes), err |-> ErrNil, nRead |-> 0]
    ELSE LET path == TrimSpace(r.ImagePath)
         IN  IF path # <<>>
             THEN LET f == readFile(path)
                  IN  IF f.err # ErrNil
                      THEN [image |-> r.Image, err |-> f.err, nRead |-> 1]
                      ELSE [image |-> encodeBase64(f.data), err |-> ErrNil,
                            nRead |-> 1]
             ELSE [image |-> r.Image, err |-> ErrNil, nRead |-> 0]

\* A SendText that goes to doJSON without looking at the device id.
TextPrecheckNone(payload, def) ==
    [id |-> TrimSpace(payload.DeviceID), err |-> ErrNil]

\* SendText up to the call of doJSON: the device id resolved and the error
\* returned before doJSON, if any.
TextPrecheck(payload, def) ==
    LET r == resolveDeviceID(payload.DeviceID, def)
    IN  IF r.err # ErrNil THEN r
        ELSE [id |-> r.id,
              err |-> TextValidate([(payload @@ ZeroTextRequest)
                                      EXCEPT !.DeviceID = r.id])]

\* An image check that looks at the device id and at nothing else.
ImagePrecheckDeviceOnly(r, def) ==
    LET d == resolveDeviceID(r.DeviceID, def)
        n == NormalizeImage(r)
    IN  [id |-> d.id, image |-> n.image, err |-> d.err, nRead |-> n.nRead]

\* An image check that accepts an empty payload.
ImagePrecheckNoPayloadCheck(r, def) ==
    LET d == resolveDeviceID(r.DeviceID, def)
        n == NormalizeImage(r)
    IN  IF d.err # ErrNil
        THEN [id |-> d.id, image |-> r.Image, err |-> d.err, nRead |-> 0]
        ELSE [id |-> d.id, image |-> n.image, err |-> n.err, nRead |-> n.nRead]

\* SendImage up to the call of doJSON.
ImagePrecheck(r, def) ==
    LET d == resolveDeviceID(r.DeviceID, def)
        n == NormalizeImage(r)
    IN  IF d.err # ErrNil
        THEN [id |-> d.id, image |-> r.Image, err |-> d.err, nRead |-> 0]
        ELSE IF n.err # ErrNil
        THEN [id |-> d.id, image |-> n.image, err |-> n.err, nRead |-> n.nRead]
        ELSE [id |-> d.id, image |-> n.image,
              err |-> ImageValidate(d.id, n.image), nRead |-> n.nRead]

\* A doJSON that calls Wait whether the client has a limiter or not.
doJSONEnterAlwaysWait(q) == [q EXCEPT !.pc = "lock", !.nWait = q.nWait + 1]

\* doJSON, its first step: with a limiter the call enters Wait, without one
\* it goes to the HTTP request.
doJSONEnter(q) ==
    IF limiter # "nil"
    THEN [q EXCEPT !.pc = "lock", !.nWait = q.nWait + 1]
    ELSE [q EXCEPT !.pc = "http"]

\* SendText(ctx, payload), from the call to the first step of doJSON.  The
\* default device id is read under c.mu.RLock() when the explicit id is blank.
SendText(p, payload, cancelled) ==
    /\ newClient.err = ErrNil
    /\ proc[p].pc = "idle"
    /\ budget > 0
    /\ TrimSpace(payload.DeviceID) = <<>> => RLock
    /\ budget' = budget - 1
    /\ LET pre == TextPrecheck(payload, defaultDevice)
           q   == [NewCall("text", cancelled) EXCEPT
                       !.req = payload, !.defRead = defaultDevice,
                       !.did = pre.id]
       IN  IF pre.err # ErrNil
           THEN Return(p, q, pre.err)
           ELSE /\ proc' = [proc EXCEPT ![p] = doJSONEnter(q)]
                /\ UNCHANGED last
    /\ UNCHANGED <<now, conf, next, mu, dev, wire, sched>>

\* SendImage(ctx, payload), from the call to the first step of doJSON; call
\* is the wrapper the call came through, with its arguments.
SendImageCalled(p, payload, cancelled, call) ==
    /\ newClient.err = ErrNil
    /\ proc[p].pc = "idle"
    /\ budget > 0
    /\ TrimSpace(payload.DeviceID) = <<>> => RLock
    /\ budget' = budget - 1
    /\ LET pre == ImagePrecheck(payload, defaultDevice)
           q   == [NewCall("image", cancelled) EXCEPT
                       !.call = call,
                       !.req = payload, !.defRead = defaultDevice,
                       !.did = pre.id, !.image = pre.image,
                       !.nRead = pre.nRead]
       IN  IF pre.err # ErrNil
           THEN Return(p, q, pre.err)
           ELSE /\ proc' = [proc EXCEPT ![p] = doJSONEnter(q)]
                /\ UNCHANGED last
    /\ UNCHANGED <<now, conf, next, mu, dev, wire, sched>>

\* SendImage(ctx, payload) called by the user.
SendImage(p, payload, cancelled) ==
    SendImageCalled(p, payload, cancelled, NoCall)

\* SendImageBytes(ctx, png, meta): meta.Image = ""; meta.ImageBytes = png
SendImageBytes(p, png, meta, cancelled) ==
    SendImageCalled(p, [meta EXCEPT !.Image = <<>>, !.ImageBytes = png],
                    cancelled,
                    [fn |-> "SendImageBytes", arg |-> png, meta |-> meta])

\* SendImageFile(ctx, path, meta): meta.Image = ""; meta.ImagePath = path
SendImageFile(p, path, meta, cancelled) ==
    SendImageCalled(p, [meta EXCEPT !.Image = <<>>, !.ImagePath = path],
                    cancelled,
                    [fn |-> "SendImageFile", arg |-> path, meta |-> meta])

\* The payload doJSON is given: the request with the device id resolved
\* and the image normalized, by JSON key.  ImageBytes and ImagePath are
\* tagged json:"-".
Payload(q) ==
    IF q.kind = "text"
    THEN LET r == q.req @@ ZeroTextRequest
         IN  [refreshNow |-> r.RefreshNow, deviceId |-> q.did,
              title |-> r.Title, message |-> r.Message,
              signature |-> r.Signature, icon |-> r.Icon, link |-> r.Link]
    ELSE LET r == q.req @@ ZeroImageRequest
         IN  [refreshNow |-> r.RefreshNow, deviceId |-> q.did,
              image |-> q.image, link |-> r.Link, border |-> r.Border,
              ditherType |-> r.DitherType, ditherKernel |-> r.DitherKernel]

\* The keys tagged omitempty.
OmitEmptyKeys ==
    {"refreshNow", "title", "message", "signature", "icon", "link",
     "border", "ditherType", "ditherKernel"}

\* The empty value of encoding/json: a nil pointer, a zero number, an empty
\* string.
IsEmptyValue(k, v) ==
    IF k = "refreshNow" THEN v = "nil"
    ELSE IF k = "border" THEN v = 0
    ELSE v = <<>>

\* A serialization that writes every field.
MarshalEveryField(q) == Payload(q)

\* json.Marshal(payload): the request body, by key; a key tagged omitempty
\* is left out when its value is empty.
Marshal(q) ==
    LET v == Payload(q)
        keys == {k \in DOMAIN v :
                    k \in OmitEmptyKeys => ~IsEmptyValue(k, v[k])}
    IN  [k \in keys |-> v[k]]

Endpoint(q) == IF q.kind = "text" THEN "/api/open/text" ELSE "/api/open/image"

\* The HTTP statuses the server answers with.
Statuses == {200, 429}

\* Answers of a status and nothing else.
PlainAnswers ==
    {[status |-> st, ctype |-> <<>>, body |-> <<>>, readOK |-> TRUE] :
        st \in Statuses}

\* ------------------------------------------------------ response bodies
\* A body is a sequence of pieces of text: a space, a brace, a comma, a
\* member of a JSON object, or text that is no JSON.
MemberText ==
    ("\"message\":\"hi\"" :> [key |-> "message", type |-> "string",
                               str |-> <<"h", "i">>, num |-> 0])
    @@ ("\"message\":\"\"" :> [key |-> "message", type |-> "string",
                               str |-> <<>>, num |-> 0])
    @@ ("\"error\":\"no\"" :> [key |-> "error", type |-> "string",
                               str |-> <<"n", "o">>, num |-> 0])
    @@ ("\"code\":7" :> [key |-> "code", type |-> "number",
                         str |-> <<>>, num |-> 7])
    @@ ("\"code\":\" x \"" :> [key |-> "code", type |-> "string",
                               str |-> <<" ", "x", " ">>, num |-> 0])
    @@ ("\"result\":{}" :> [key |-> "result", type |-> "object",
                            str |-> <<"{", "}">>, num |-> 0])

\* The text between the braces is members separated by commas.
RECURSIVE IsMemberList(_)
IsMemberList(s) ==
    IF Len(s) = 0 THEN FALSE
    ELSE IF Len(s) = 1 THEN s[1] \in DOMAIN MemberText
    ELSE /\ s[1] \in DOMAIN MemberText
         /\ Len(s) >= 3
         /\ s[2] = ","
         /\ IsMemberList(SubSeq(s, 3, Len(s)))

\* A sequence without its spaces: JSON ignores white space between tokens.
RECURSIVE Unspaced(_)
Unspaced(s) ==
    IF Len(s) = 0 THEN <<>>
    ELSE IF IsSpace(s[1]) THEN Unspaced(Tail(s))
    ELSE <<s[1]>> \o Unspaced(Tail(s))

\* json.Unmarshal's syntax check of a body holding an object: the members
\* of the object in their order, and whether the body is valid JSON.
ParseObject(body) ==
    LET t == Unspaced(body)
        n == Len(t)
    IN  IF n >= 2 /\ t[1] = "{" /\ t[n] = "}"
           /\ (n = 2 \/ IsMemberList(SubSeq(t, 2, n - 1)))
        THEN [ok |-> TRUE,
              members |-> SelectSeq(SubSeq(t, 2, n - 1),
                                    LAMBDA x : x \in DOMAIN MemberText)]
        ELSE [ok |-> FALSE, members |-> <<>>]

\* The members with the key k, in their order.
WithKey(members, k) == SelectSeq(members, LAMBDA x : MemberText[x].key = k)

\* isJSONObject
isJSONObject(s) == Len(s) > 0 /\ s[1] = "{" /\ s[Len(s)] = "}"

\* tryParseJSON: the map json.Unmarshal builds, in which a later member of
\* a key replaces an earlier one; nil on failure.
tryParseJSON(body) ==
    LET o == ParseObject(body)
        keys == {MemberText[o.members[i]].key : i \in 1..Len(o.members)}
    IN  IF ~o.ok THEN [ok |-> FALSE, obj |-> <<>>]
        ELSE [ok |-> TRUE,
              obj |-> [k \in keys |->
                         LET ms == WithKey(o.members, k)
                         IN  MemberText[ms[Len(ms)]]]]

Digits == <<"0", "1", "2", "3", "4", "5", "6", "7", "8", "9">>

\* strconv.Itoa for a number that is not negative
RECURSIVE Itoa(_)
Itoa(n) ==
    IF n < 10 THEN <<Digits[n + 1]>>
    ELSE Itoa(n \div 10) \o <<Digits[(n % 10) + 1]>>

\* formatCode
formatCode(v) ==
    IF v.type = "string" THEN TrimSpace(v.str)
    ELSE IF v.type = "number" THEN Itoa(v.num)
    ELSE <<>>

\* A message taken from the error field before the message field.
extractErrorFieldsErrorFirst(ae, obj, fallback) ==
    LET has(k) == k \in DOMAIN obj /\ obj[k].type = "string"
                    /\ obj[k].str # <<>>
        msg == IF has("error") THEN obj["error"].str
               ELSE IF has("message") THEN obj["message"].str
               ELSE fallback
    IN  [ae EXCEPT !.Message = msg,
                   !.Code = IF "code" \in DOMAIN obj
                            THEN formatCode(obj["code"]) ELSE ae.Code]

\* extractErrorFields
extractErrorFields(ae, obj, fallback) ==
    LET has(k) == k \in DOMAIN obj /\ obj[k].type = "string"
                    /\ obj[k].str # <<>>
        msg == IF has("message") THEN obj["message"].str
               ELSE IF has("error") THEN obj["error"].str
               ELSE fallback
    IN  [ae EXCEPT !.Message = msg,
                   !.Code = IF "code" \in DOMAIN obj
                            THEN formatCode(obj["code"]) ELSE ae.Code]

\* An error that keeps the trimmed body in place of the raw one.
buildAPIErrorTrimmedRaw(status, body) ==
    [StatusCode |-> status, Code |-> <<>>, Message |-> TrimSpace(body),
     RawBody |-> TrimSpace(body)]

\* buildAPIError
buildAPIError(status, body) ==
    LET trimmed == TrimSpace(body)
        ae == [StatusCode |-> status, Code |-> <<>>, Message |-> trimmed,
               RawBody |-> body]
        parsed == tryParseJSON(body)
    IN  IF isJSONObject(trimmed) /\ parsed.ok
        THEN extractErrorFields(ae, parsed.obj, trimmed)
        ELSE ae

\* json.Unmarshal(raw, out) into an *APIResponse: nothing is stored when the
\* body is not valid JSON; of a valid object each member is stored in its
\* field in turn, a member of the wrong type is skipped and makes the call
\* return an error after the rest was stored.
Unmarshal(raw, out) ==
    LET o == ParseObject(raw)
        fits(x) == \/ MemberText[x].key = "code"
                      /\ MemberText[x].type = "number"
                   \/ MemberText[x].key = "message"
                      /\ MemberText[x].type = "string"
                   \/ MemberText[x].key = "result"
        known(x) == MemberText[x].key \in {"code", "message", "result"}
        good == SelectSeq(o.members, fits)
        lastOf(k, dflt, f(_)) ==
            LET ms == WithKey(good, k)
            IN  IF Len(ms) = 0 THEN dflt ELSE f(MemberText[ms[Len(ms)]])
        num(v) == v.num
        str(v) == v.str
    IN  IF ~o.ok THEN [ok |-> FALSE, out |-> out]
        ELSE [ok |-> \A i \in 1..Len(o.members) :
                        known(o.members[i]) => fits(o.members[i]),
              out |-> [out EXCEPT
                         !.Code = lastOf("code", out.Code, num),
                         !.Message = lastOf("message", out.Message, str),
                         !.Result = lastOf("result", out.Result, str)]]

\* A header compared in the case it came in.
ToLowerIdentity(s) == s

\* strings.ToLower of the pieces a Content-Type header is made of
ToLower(s) ==
    [i \in 1..Len(s) |->
        IF s[i] = "Application/JSON" THEN "application/json" ELSE s[i]]

\* strings.Contains(ct, "application/json")
ContainsJSON(ct) == \E i \in 1..Len(ct) : ct[i] = "application/json"

ReadBodyErr == "quote0: read response"

\* A response handling that looks at the status before it reads the body.
doJSONRespondStatusFirst(a) ==
    IF a.status < 200 \/ a.status >= 300
    THEN [err |-> APIErr,
          apiErr |-> buildAPIError(a.status, IF a.readOK THEN a.body ELSE <<>>),
          out |-> NoOut]
    ELSE IF ~a.readOK
    THEN [err |-> ReadBodyErr, apiErr |-> NoAPIError, out |-> NoOut]
    ELSE [err |-> ErrNil, apiErr |-> NoAPIError,
          out |-> [NoOut EXCEPT !.StatusCode = a.status, !.RawBody = a.body]]

\* A response handling that decodes every body, whatever its Content-Type.
doJSONRespondAlwaysDecode(a) ==
    IF ~a.readOK
    THEN [err |-> ReadBodyErr, apiErr |-> NoAPIError, out |-> NoOut]
    ELSE IF a.status < 200 \/ a.status >= 300
    THEN [err |-> APIErr, apiErr |-> buildAPIError(a.status, a.body),
          out |-> NoOut]
    ELSE LET out == [NoOut EXCEPT !.StatusCode = a.status,
                                  !.RawBody = a.body]
             dec == Unmarshal(a.body, out)
         IN  [err |-> ErrNil, apiErr |-> NoAPIError,
              out |-> IF Len(a.body) = 0 THEN out
                      ELSE IF dec.ok THEN dec.out
                      ELSE [dec.out EXCEPT !.Message = TrimSpace(a.body)]]

\* doJSON from io.ReadAll to its return: the error, the *APIError behind it
\* and the *APIResponse returned for the answer a.
doJSONRespond(a) ==
    IF ~a.readOK
    THEN [err |-> ReadBodyErr, apiErr |-> NoAPIError, out |-> NoOut]
    ELSE IF a.status < 200 \/ a.status >= 300
    THEN [err |-> APIErr, apiErr |-> buildAPIError(a.status, a.body),
          out |-> NoOut]
    ELSE LET out == [NoOut EXCEPT !.StatusCode = a.status,
                                  !.RawBody = a.body]
             dec == Unmarshal(a.body, out)
         IN  [err |-> ErrNil, apiErr |-> NoAPIError,
              out |-> IF Len(a.body) = 0 THEN out
                      ELSE IF ~ContainsJSON(ToLower(a.ctype))
                      THEN [out EXCEPT !.Message = TrimSpace(a.body)]
                      ELSE IF dec.ok THEN dec.out
                      ELSE [dec.out EXCEPT !.Message = TrimSpace(a.body)]]

\* A doJSON that starts over when c.http.Do fails.
doJSONRequestRetrying(p) ==
    /\ proc[p].pc = "http"
    /\ LET q == [proc[p] EXCEPT !.nHttp = proc[p].nHttp + 1]
       IN  \/ /\ proc' = [proc EXCEPT ![p] = doJSONEnter(q)]
              /\ UNCHANGED <<last, wire>>
           \/ /\ ~q.ctxDone
              /\ Return(p, [q EXCEPT !.sent = <<Marshal(q)>>], ErrNil)
              /\ wire' = [at |-> now, slot |-> q.start]
    /\ UNCHANGED <<now, conf, next, mu, dev, sched, budget>>

\* doJSON from json.Marshal to its return.  c.http.Do fails at once when the
\* context is done; otherwise the request reaches the network and the server
\* gives one of the answers, or the transport fails.  nHttp counts the calls
\* of c.http.Do.
doJSONRequest(p) ==
    /\ proc[p].pc = "http"
    /\ LET q == proc[p]
       IN  \/ /\ q.ctxDone
              /\ Return(p, [q EXCEPT !.nHttp = q.nHttp + 1], TransportErr)
              /\ wire' = wire
           \/ /\ ~q.ctxDone
              /\ Return(p, [q EXCEPT !.nHttp = q.nHttp + 1], TransportErr)
              /\ wire' = wire
           \/ /\ ~q.ctxDone
              /\ \E a \in server :
                    /\ last' = [q EXCEPT
                          !.by = p, !.pc = "idle",
                          !.resp = a,
                          !.ret = doJSONRespond(a).err,
                          !.out = doJSONRespond(a).out,
                          !.apiErr = doJSONRespond(a).apiErr,
                          !.ctxDone = FALSE, !.wait = 0, !.start = 0,
                          !.deadline = 0, !.seq = FALSE,
                          !.nHttp = q.nHttp + 1,
                          !.sent = <<Marshal(q)>>,
                          !.auth = <<"Bearer", " ">> \o newClient.apiKey,
                          !.url = baseURL.url \o <<Endpoint(q)>>,
                          !.lag = IF q.nWait > 0 THEN now - q.start ELSE 0,
                          !.gap = IF q.seq
                                  THEN [at |-> now - wire.at,
                                        slot |-> q.start - wire.slot]
                                  ELSE NoGap]
                    /\ proc' = [r \in Procs |->
                                  IF r = p THEN IdleProc
                                  ELSE [proc[r] EXCEPT !.seq = FALSE]]
              /\ wire' = [at |-> now, slot |-> q.start]
    /\ UNCHANGED <<now, conf, next, mu, dev, sched, budget>>

\* The error a call returned: its kind, and the *APIError if it is one.
ErrorOf(q) == [ret |-> q.ret, api |-> q.apiErr]

\* IsRateLimitError
IsRateLimitError(err) == err.ret = APIErr /\ err.api.StatusCode = 429

\* A predicate that knows 401 only.
IsAuthErrorUnauthorizedOnly(err) ==
    err.ret = APIErr /\ err.api.StatusCode = 401

\* IsAuthError
IsAuthError(err) ==
    err.ret = APIErr
    /\ (err.api.StatusCode = 401 \/ err.api.StatusCode = 403)

\* The string header (data, length) of c.defaultDevice half written: the new
\* data with the old length, or the old data with the new length.
HalfWritten(old, new) ==
    { [i \in 1..Len(old) |-> IF i <= Len(new) THEN new[i] ELSE "?"],
      [i \in 1..Len(new) |-> IF i <= Len(old) THEN old[i] ELSE "?"] }

\* SetDefaultDeviceID(deviceID): c.mu.Lock()
SetDefaultDeviceID(p, deviceID) ==
    /\ newClient.err = ErrNil
    /\ proc[p].pc = "idle"
    /\ budget > 0
    /\ cmu = NoProc
    /\ cmu' = p
    /\ budget' = budget - 1
    /\ proc' = [proc EXCEPT ![p] =
                  [NewCall("set", FALSE) EXCEPT !.req = deviceID,
                                                !.pc = "setStore"]]
    /\ UNCHANGED <<now, conf, next, mu, defaultDevice, held, last, wire,
                   sched>>

\* c.defaultDevice = strings.TrimSpace(deviceID), the store under way
SetStore(p) ==
    /\ proc[p].pc = "setStore"
    /\ cmu = p
    /\ defaultDevice' \in HalfWritten(defaultDevice, TrimSpace(proc[p].req))
    /\ proc' = [proc EXCEPT ![p].pc = "setUnlock"]
    /\ UNCHANGED <<now, conf, next, mu, cmu, held, last, wire, sched,
                   budget>>

\* the store complete; c.mu.Unlock()
SetUnlock(p) ==
    /\ proc[p].pc = "setUnlock"
    /\ cmu = p
    /\ defaultDevice' = TrimSpace(proc[p].req)
    /\ held' = held \cup {TrimSpace(proc[p].req)}
    /\ cmu' = NoProc
    /\ Return(p, proc[p], ErrNil)
    /\ UNCHANGED <<now, conf, next, mu, wire, sched, budget>>

\* ------------------------------------------------------------ environment
\* The caller cancels the context of the call goroutine p is in.
Cancel(p) ==
    /\ proc[p].pc \notin {"idle", "setStore", "setUnlock"}
    /\ ~proc[p].ctxDone
    /\ proc' = [proc EXCEPT ![p].ctxDone = TRUE,
                            ![p].ctxEarly = \/ proc[p].pc \in {"lock", "crit"}
                                            \/ now < proc[p].start]
    /\ UNCHANGED <<now, conf, next, mu, dev, last, wire, sched, budget>>

\* The wall clock advances by one tick.
Tick ==
    /\ \/ now < MaxTime
       \/ \E p \in Procs : proc[p].pc = "select" /\ now < proc[p].deadline
    /\ now' = now + 1
    /\ UNCHANGED <<conf, next, mu, dev, proc, last, wire, sched, budget>>

\* ------------------------------------------- the limiter used on its own
InitLimiter ==
    /\ now = 1
    /\ opt = NoOptions
    /\ limiter = "fixed"
    /\ minInterval \in {NewFixedIntervalLimiter(d) : d \in IntervalArgs}
    /\ newClient = NewClient(SomeToken)
    /\ baseURL = NewClientBaseURL(DefaultBaseURL)
    /\ server = PlainAnswers
    /\ next = 0
    /\ mu = NoProc
    /\ defaultDevice = <<>>
    /\ cmu = NoProc
    /\ held = {<<>>}
    /\ proc = [p \in Procs |-> IdleProc]
    /\ last = IdleProc
    /\ wire = NoRequest
    /\ sched = <<>>
    /\ budget = MaxCalls

NextLimiter ==
    \/ \E p \in Procs, c \in BOOLEAN : WaitCall(p, c)
    \/ \E p \in Procs : WaitLock(p)
    \/ \E p \in Procs : WaitAdvance(p)
    \/ \E p \in Procs : WaitTimer(p)
    \/ \E p \in Procs : WaitCtxDone(p)
    \/ \E p \in Procs : Cancel(p)
    \/ Tick

SpecLimiter == InitLimiter /\ [][NextLimiter]_vars

\* ------------------------- the limiter made with an interval that is none
\* NewFixedIntervalLimiter(d) for some d of args, used on its own for up to
\* n calls of Wait; opt keeps d.
InitWaiters(args, n) ==
    /\ now = 1
    /\ opt \in {[limiter |-> "fixed", interval |-> d, device |-> <<>>] :
                  d \in args}
    /\ limiter = "fixed"
    /\ minInterval = NewFixedIntervalLimiter(opt.interval)
    /\ newClient = NewClient(SomeToken)
    /\ baseURL = NewClientBaseURL(DefaultBaseURL)
    /\ server = PlainAnswers
    /\ next = 0
    /\ mu = NoProc
    /\ defaultDevice = <<>>
    /\ cmu = NoProc
    /\ held = {<<>>}
    /\ proc = [p \in Procs |-> IdleProc]
    /\ last = IdleProc
    /\ wire = NoRequest
    /\ sched = <<>>
    /\ budget = n

NonPositiveArgs == {d \in IntervalArgs : d <= 0}

InitCoercion == InitWaiters(NonPositiveArgs, CoercionCalls)

SpecCoercion == InitCoercion /\ [][NextLimiter]_vars

\* ------------------------------------ the limiter under a fair scheduler
\* The Go scheduler runs every goroutine that can run, sync.Mutex hands the
\* lock to a goroutine that keeps waiting for it, a timer that is due fires
\* and the clock goes on.  The caller is free to cancel or not.
LiveArgs == {0, 1}

InitLive == InitWaiters(LiveArgs, LiveCalls)

Waiters == {"g1", "g2"}

NextLive ==
    \/ \E p \in Waiters, c \in BOOLEAN : WaitCall(p, c)
    \/ \E p \in Waiters : WaitLock(p)
    \/ \E p \in Waiters : WaitAdvance(p)
    \/ \E p \in Waiters : WaitTimer(p)
    \/ \E p \in Waiters : WaitCtxDone(p)
    \/ \E p \in Waiters : Cancel(p)
    \/ Tick

Fairness ==
    /\ WF_vars(Tick)
    /\ \A p \in Waiters :
          /\ SF_vars(WaitLock(p))
          /\ WF_vars(WaitAdvance(p))
          /\ WF_vars(WaitTimer(p))
          /\ WF_vars(WaitCtxDone(p))

SpecLive == InitLive /\ [][NextLive]_vars /\ Fairness

\* ------------------------------------------------------ the client built
\* NewClient(token, opts...) with the options o, at the instant t; the
\* callers start up to n calls and the server gives one of the answers.
InitBase(b, token, o, n, t, answers) ==
    /\ now = t
    /\ opt = o
    /\ newClient = NewClient(token)
    /\ baseURL = NewClientBaseURL(b)
    /\ server = answers
    /\ limiter = NewClientLimiter(o).limiter
    /\ minInterval = NewClientLimiter(o).minInterval
    /\ next = 0
    /\ mu = NoProc
    /\ defaultDevice = NewClientDevice(o)
    /\ cmu = NoProc
    /\ held = {NewClientDevice(o)}
    /\ proc = [p \in Procs |-> IdleProc]
    /\ last = IdleProc
    /\ wire = NoRequest
    /\ sched = <<>>
    /\ budget = n

\* NewClient without WithBaseURL: c.baseURL starts as DefaultBaseURL.
InitNew(token, o, n, t, answers) ==
    InitBase(DefaultBaseURL, token, o, n, t, answers)

\* A client with some token and a server that answers with a status only.
InitClient(o, n, t) == InitNew(SomeToken, o, n, t, PlainAnswers)

\* The goroutines sharing the client.
Callers == {"g1", "g2"}

\* The limiter options NewClient is called with: none, WithRateLimiter(nil),
\* WithRateLimiter(NewFixedIntervalLimiter(d)).
LimiterOptions ==
    { [limiter |-> "unset", interval |-> 0, device |-> <<>>],
      [limiter |-> "nil", interval |-> 0, device |-> <<>>],
      [limiter |-> "fixed", interval |-> 1, device |-> <<>>] }

\* ----------------------------- dispatches in time: throttling, cancellation
\* Requests that pass validation, of both kinds.
ValidText == { [DeviceID |-> <<"A">>] }
ValidImage ==
    { [DeviceID |-> <<"A">>, Image |-> <<"Q", "Q", "=", "=">>,
       ImageBytes |-> <<>>, ImagePath |-> <<>>] }

InitTiming == \E o \in LimiterOptions : InitClient(o, TimingCalls, 1)

NextTiming ==
    \/ \E p \in Callers, r \in ValidText : SendText(p, r, FALSE)
    \/ \E p \in Callers, r \in ValidImage : SendImage(p, r, FALSE)
    \/ \E p \in Callers : WaitLock(p)
    \/ \E p \in Callers : WaitAdvance(p)
    \/ \E p \in Callers : WaitTimer(p)
    \/ \E p \in Callers : WaitCtxDone(p)
    \/ \E p \in Callers : doJSONRequest(p)
    \/ \E p \in Callers : Cancel(p)
    \/ Tick

SpecTiming == InitTiming /\ [][NextTiming]_vars

\* -------------------------------- one caller, one dispatch after the other
FixedOptions ==
    { [limiter |-> "unset", interval |-> 0, device |-> <<>>],
      [limiter |-> "fixed", interval |-> 1, device |-> <<>>],
      [limiter |-> "fixed", interval |-> 3, device |-> <<>>] }

InitSequential == \E o \in FixedOptions : InitClient(o, MaxCalls, 1)

NextSequential ==
    \/ \E r \in ValidText : SendText("g1", r, FALSE)
    \/ \E r \in ValidImage : SendImage("g1", r, FALSE)
    \/ WaitLock("g1")
    \/ WaitAdvance("g1")
    \/ WaitTimer("g1")
    \/ WaitCtxDone("g1")
    \/ doJSONRequest("g1")
    \/ Cancel("g1")
    \/ Tick

SpecSequential == InitSequential /\ [][NextSequential]_vars

\* ------------------------- dispatches and SetDefaultDeviceID: the device id
\* The default device ids given to WithDefaultDeviceID.
DeviceOptions ==
    { [limiter |-> "unset", interval |-> 0, device |-> d] :
        d \in {<<>>, <<"D", " ">>} }

ExplicitIDs == {<<>>, <<" ">>, <<" ", "A">>}
SetIDs == {<<" ">>, <<"E", "E">>}
TextRequests == [DeviceID : ExplicitIDs]
ImageRequests ==
    [DeviceID : ExplicitIDs, Image : {<<"Q", "Q", "=", "=">>},
     ImageBytes : {<<>>}, ImagePath : {<<>>}]

\* The clock starts where it advances only for the sake of a sleeping caller.
InitDevice == \E o \in DeviceOptions : InitClient(o, DeviceCalls, MaxTime)

NextDevice ==
    \/ \E p \in Callers, r \in TextRequests : SendText(p, r, FALSE)
    \/ \E p \in Callers, r \in ImageRequests : SendImage(p, r, FALSE)
    \/ \E p \in Callers, d \in SetIDs : SetDefaultDeviceID(p, d)
    \/ \E p \in Callers : SetStore(p)
    \/ \E p \in Callers : SetUnlock(p)
    \/ \E p \in Callers : WaitLock(p)
    \/ \E p \in Callers : WaitAdvance(p)
    \/ \E p \in Callers : WaitTimer(p)
    \/ \E p \in Callers : doJSONRequest(p)
    \/ Tick

SpecDevice == InitDevice /\ [][NextDevice]_vars

\* --------------------------------------- image dispatches: the image source
ImageSources ==
    [DeviceID : {<<>>, <<"A">>},
     Image : {<<>>, <<" ">>, <<" ", "Q", "Q", "=", "=">>,
              <<"i", "V", "A", "=">>},
     ImageBytes : {<<>>, <<137, 80>>, <<137, 80, 78, 71>>},
     ImagePath : {<<>>, <<" ">>, <<" ", "f">>, <<"x">>, <<"e">>}]

InitImage == InitClient(NoOptions, ImageCalls, MaxTime)

NextImage ==
    \/ \E r \in ImageSources : SendImage("g1", r, FALSE)
    \/ WaitLock("g1")
    \/ WaitAdvance("g1")
    \/ WaitTimer("g1")
    \/ doJSONRequest("g1")
    \/ Tick

SpecImage == InitImage /\ [][NextImage]_vars

\* ------------------------------------------- dispatches and their responses
\* Members joined by commas.
RECURSIVE Join(_)
Join(ms) ==
    IF Len(ms) <= 1 THEN ms ELSE <<ms[1], ",">> \o Join(Tail(ms))

MemberSeqs ==
    UNION {[1..n -> DOMAIN MemberText] : n \in 0..MaxMembers}

\* The envelopes {code, message, result} of the service.
Envelopes ==
    {<<c, m, "\"result\":{}">> :
        c \in {"\"code\":7", "\"code\":\" x \""},
        m \in {"\"message\":\"hi\"", "\"message\":\"\""}}

\* Bodies without the white space around them: objects, objects that are
\* not closed or hold text that is no JSON, and plain text.
BodyCores ==
    {<<"{">> \o Join(ms) \o <<"}">> : ms \in MemberSeqs \cup Envelopes}
    \cup {<<"{">> \o Join(ms) : ms \in MemberSeqs}
    \cup {<<"{", "x", ",">> \o Join(ms) \o <<"}">> : ms \in MemberSeqs}
    \cup {<<>>, <<"x">>, <<"x", " ", "x">>}

Padding == {<<>>, <<" ">>}

Bodies == {l \o c \o r : l \in Padding, c \in BodyCores, r \in Padding}

StatusCodes == {101, 200, 299, 300, 401, 403, 429, 500}

\* Content-Type headers: absent, plain text, JSON, JSON in other case with
\* a parameter.
ContentTypes ==
    {<<>>, <<"text/plain">>, <<"application/json">>,
     <<"Application/JSON", "; charset=utf-8">>}

Answers ==
    [status : StatusCodes, ctype : ContentTypes, body : Bodies,
     readOK : BOOLEAN]

NilLimiter == [limiter |-> "nil", interval |-> 0, device |-> <<>>]

\* The server gives the same answer to every request of a behaviour.
InitResponse ==
    \E a \in Answers :
        InitNew(SomeToken, NilLimiter, ResponseCalls, MaxTime, {a})

NextResponse ==
    \/ \E r \in ValidText : SendText("g1", r, FALSE)
    \/ doJSONRequest("g1")

SpecResponse == InitResponse /\ [][NextResponse]_vars

\* ------------------------------------- dispatches and their request bodies
BodyOptions ==
    { [limiter |-> "fixed", interval |-> 1, device |-> d] :
        d \in {<<>>, <<"D">>} }

FullTextRequests ==
    [RefreshNow : {"nil", "false"}, DeviceID : {<<>>, <<"A">>},
     Title : {<<>>, <<" ">>}, Message : {<<>>, <<"M">>},
     Signature : {<<>>, <<"S">>}, Icon : {<<>>, <<"I">>},
     Link : {<<>>, <<"L">>}]

FullImageRequests ==
    [RefreshNow : {"nil", "true"}, DeviceID : {<<"A">>},
     Image : {<<"Q", "Q", "=", "=">>}, ImageBytes : {<<>>},
     ImagePath : {<<>>}, Link : {<<>>, <<"L">>}, Border : {0, 1},
     DitherType : {<<>>, <<"ORDERED">>},
     DitherKernel : {<<>>, <<"ATKINSON">>}]

InitBody == \E o \in BodyOptions : InitClient(o, BodyCalls, MaxTime)

NextBody ==
    \/ \E r \in FullTextRequests : SendText("g1", r, FALSE)
    \/ \E r \in FullImageRequests : SendImage("g1", r, FALSE)
    \/ WaitLock("g1")
    \/ WaitAdvance("g1")
    \/ WaitTimer("g1")
    \/ doJSONRequest("g1")
    \/ Tick

SpecBody == InitBody /\ [][NextBody]_vars

\* ------------------------------------------- dispatches and their failures
\* Requests that fail before the limiter, and requests that pass.
FailingText == [DeviceID : {<<>>, <<"A">>}]
FailingImages ==
    [DeviceID : {<<>>, <<"A">>}, Image : {<<>>, <<"Q", "Q", "=", "=">>},
     ImageBytes : {<<>>}, ImagePath : {<<>>, <<"x">>, <<"e">>, <<"f">>}]

\* The server answers with a status, and the body may fail to arrive.
FailingAnswers ==
    [status : {200, 401, 429}, ctype : {<<>>}, body : {<<>>},
     readOK : BOOLEAN]

InitFailure ==
    InitNew(SomeToken, NoOptions, FailureCalls, MaxTime, FailingAnswers)

NextFailure ==
    \/ \E r \in FailingText, c \in BOOLEAN : SendText("g1", r, c)
    \/ \E r \in FailingImages, c \in BOOLEAN : SendImage("g1", r, c)
    \/ WaitLock("g1")
    \/ WaitAdvance("g1")
    \/ WaitTimer("g1")
    \/ WaitCtxDone("g1")
    \/ doJSONRequest("g1")
    \/ Cancel("g1")
    \/ Tick

SpecFailure == InitFailure /\ [][NextFailure]_vars

\* --------------------------------------- clients built with WithBaseURL
\* The values given to WithBaseURL: a host h, slashes and white space.
RECURSIVE URLsUpTo(_)
URLsUpTo(n) ==
    IF n = 0 THEN {<<>>}
    ELSE LET shorter == URLsUpTo(n - 1)
         IN  shorter \cup {Append(u, c) : u \in shorter, c \in {"h", "/", " "}}

BaseURLArgs == URLsUpTo(MaxURLLen)

InitURL ==
    \E b \in BaseURLArgs :
        InitBase(b, SomeToken, NilLimiter, URLCalls, MaxTime, PlainAnswers)

NextURL ==
    \/ \E r \in ValidText : SendText("g1", r, FALSE)
    \/ \E r \in ValidImage : SendImage("g1", r, FALSE)
    \/ doJSONRequest("g1")

SpecURL == InitURL /\ [][NextURL]_vars

\* ------------------------------------------- clients built from a token
Tokens ==
    {<<>>, <<" ">>, <<" ", " ">>, <<"k">>, <<" ", "k">>, <<"k", " ">>,
     <<" ", "k", " ", "y", " ">>}

TokenOptions ==
    { [limiter |-> l, interval |-> 0, device |-> d] :
        l \in {"unset", "nil"}, d \in {<<>>, <<"D">>} }

InitToken ==
    \E token \in Tokens, o \in TokenOptions :
        InitNew(token, o, TokenCalls, MaxTime, PlainAnswers)

NextToken ==
    \/ \E r \in TextRequests : SendText("g1", r, FALSE)
    \/ \E r \in ValidImage : SendImage("g1", r, FALSE)
    \/ WaitLock("g1")
    \/ WaitAdvance("g1")
    \/ WaitTimer("g1")
    \/ doJSONRequest("g1")
    \/ Tick

SpecToken == InitToken /\ [][NextToken]_vars

\* ------------------------------- image dispatches through the wrappers
\* The meta requests given to SendImageBytes and SendImageFile.
MetaRequests ==
    [DeviceID : {<<"A">>},
     Image : {<<>>, <<"Q", "Q", "=", "=">>},
     ImageBytes : {<<>>, <<78, 71>>},
     ImagePath : {<<>>, <<"e">>, <<"x">>}]

PngArgs == {<<>>, <<137, 80>>}
PathArgs == {<<"f">>, <<"x">>}

InitWrapper == InitClient(NoOptions, ImageCalls, MaxTime)

NextWrapper ==
    \/ \E png \in PngArgs, m \in MetaRequests :
          SendImageBytes("g1", png, m, FALSE)
    \/ \E path \in PathArgs, m \in MetaRequests :
          SendImageFile("g1", path, m, FALSE)
    \/ WaitLock("g1")
    \/ WaitAdvance("g1")
    \/ WaitTimer("g1")
    \/ doJSONRequest("g1")
    \/ Tick

SpecWrapper == InitWrapper /\ [][NextWrapper]_vars

\* ===================================================================
\* Properties
\* ===================================================================
Abs(n) == IF n < 0 THEN -n ELSE n

\* A string that is empty or all white space.
Blank(s) == \A i \in 1..Len(s) : s[i] = " "

\* A string without its leading and trailing white space.
Trimmed(s) ==
    LET ink == {i \in 1..Len(s) : s[i] # " "}
    IN  IF ink = {} THEN <<>>
        ELSE SubSeq(s, CHOOSE i \in ink : \A j \in ink : i <= j,
                       CHOOSE i \in ink : \A j \in ink : i >= j)

\* The goroutines inside SendText or SendImage.
Dispatching == {p \in Procs : proc[p].kind \in {"text", "image"}}

\* The last call that returned was a dispatch.
LastDispatch == last.kind \in {"text", "image"}

\* C1: under every interleaving of concurrent Wait calls, the slots the
\* limiter assigned to any two distinct calls lie at least minInterval apart.
C1_SlotsApart ==
    \A i, j \in 1..Len(sched) :
        i # j => Abs(sched[i] - sched[j]) >= minInterval

\* Three calls have their slots, two of them asleep at the same time.
C1_Witness ==
    /\ Len(sched) >= 3
    /\ Cardinality({p \in Procs : proc[p].pc = "select"}) >= 2

\* C2: a Wait whose context was cancelled before the instant scheduled for
\* the call returns the context's error, whether the call had to wait or the
\* limiter was idle and the context already cancelled when Wait was invoked.
C2_CancelledEarlyReturnsError ==
    (last.kind = "wait" /\ last.ctxEarly) => last.ret = CtxErr

\* C3: when the limiter's Wait returns an error, the dispatch returns that
\* error and no HTTP request is made for the call.
C3_WaitErrorNoRequest ==
    /\ \A p \in Dispatching :
          proc[p].pc = "http" => proc[p].waitRet \in {"none", ErrNil}
    /\ (LastDispatch /\ last.waitRet \notin {"none", ErrNil}) =>
          /\ last.ret = last.waitRet
          /\ last.nHttp = 0
          /\ last.sent = <<>>

\* An image dispatch whose Wait was cancelled while it slept.
C3_Witness ==
    /\ last.kind = "image"
    /\ last.waitRet = CtxErr
    /\ last.ret = CtxErr

\* C4, as stated: of two consecutive sequential dispatches through a
\* fixed-interval limiter, the network calls lie at least minInterval apart.
C4_NetworkCallsApart ==
    (LastDispatch /\ limiter = "fixed" /\ last.gap # NoGap) =>
        last.gap.at >= minInterval

\* C4, amended: of two consecutive sequential dispatches through a
\* fixed-interval limiter, the slots lie at least minInterval apart, and no
\* network call is made before the slot of its dispatch.
C4_SlotsApartSequential ==
    (LastDispatch /\ limiter = "fixed" /\ last.sent # <<>>) =>
        /\ last.lag >= 0
        /\ last.gap # NoGap => last.gap.slot >= minInterval

\* The last of the dispatches passed the limiter and reached the network
\* after an earlier one.
C4_Witness ==
    /\ LastDispatch
    /\ limiter = "fixed"
    /\ last.gap # NoGap
    /\ last.waitRet = ErrNil
    /\ budget = 0

\* C5: a client built without a limiter option has one fixed-interval
\* limiter of one second; every dispatch that passed validation draws its
\* slot from it, text or image, whichever goroutine makes it, and any two
\* slots lie at least one second apart.
C5_DefaultLimiterShared ==
    opt.limiter = "unset" =>
        /\ limiter = "fixed"
        /\ minInterval = Second
        /\ \A p \in Dispatching : proc[p].pc # "idle" => proc[p].nWait = 1
        /\ (LastDispatch /\ last.sent # <<>>) => last.nWait = 1
        /\ \A i, j \in 1..Len(sched) :
              i < j => sched[j] - sched[i] >= Second

\* A text and an image dispatch of two goroutines, both with their slots.
C5_Witness ==
    /\ opt.limiter = "unset"
    /\ Len(sched) = 2
    /\ \E p, q \in Procs :
          /\ proc[p].kind = "text" /\ proc[p].pc \in {"select", "http"}
          /\ proc[q].kind = "image" /\ proc[q].pc \in {"select", "http"}

\* C6: the device id on the wire is the explicit id, trimmed, when that is
\* not blank, and otherwise the default device id read when the id was
\* resolved.
C6_WireDeviceID ==
    (LastDispatch /\ last.sent # <<>>) =>
        last.sent[1].deviceId =
            IF ~Blank(last.req.DeviceID)
            THEN Trimmed(last.req.DeviceID)
            ELSE last.defRead

\* An image dispatch without an id of its own went out with the default that
\* SetDefaultDeviceID had set.
C6_Witness ==
    /\ last.kind = "image"
    /\ last.sent # <<>>
    /\ last.req.DeviceID = <<" ">>
    /\ last.sent[1].deviceId = <<"E", "E">>

\* The call that returned last failed for its device id.
C7_Missing ==
    /\ LastDispatch
    /\ Blank(last.req.DeviceID)
    /\ Blank(last.defRead)

C7_State ==
    /\ \A p \in Dispatching :
          proc[p].pc # "idle" =>
              ~(Blank(proc[p].req.DeviceID) /\ Blank(proc[p].defRead))
    /\ C7_Missing =>
          /\ last.ret = ErrDeviceIDMissing
          /\ last.nWait = 0
          /\ last.nHttp = 0
          /\ last.sent = <<>>

\* A call that returns ErrDeviceIDMissing in the step it starts in.
C7_Step ==
    (budget' < budget /\ proc' = proc /\ last'.ret = ErrDeviceIDMissing) =>
        UNCHANGED <<next, mu, sched, wire>>

\* C7: with the request's device id and the client's default both blank,
\* SendText and SendImage fail with ErrDeviceIDMissing before the limiter and
\* the network: Wait is not invoked, the schedule stays, no request is made.
C7_MissingDeviceFailsFirst == []C7_State /\ [][C7_Step]_vars

\* An image dispatch with a blank id failed while the default was blank.
C7_Witness ==
    /\ last.kind = "image"
    /\ last.req.DeviceID = <<" ">>
    /\ last.ret = ErrDeviceIDMissing

\* The device id a dispatch in flight goes by.
C8_Resolved(q) ==
    /\ ~Blank(q.req.DeviceID) => q.did = Trimmed(q.req.DeviceID)
    /\ Blank(q.req.DeviceID) => (q.did = q.defRead /\ q.defRead \in held)

C8_State ==
    /\ \A p \in Dispatching : proc[p].pc # "idle" => C8_Resolved(proc[p])
    /\ (LastDispatch /\ last.sent # <<>>) =>
          (C8_Resolved(last) /\ last.sent[1].deviceId = last.did)

\* No step changes the device id of a dispatch in flight, and a request
\* goes out with it.
C8_Step ==
    \A p \in Dispatching :
        proc[p].pc # "idle" =>
            /\ proc'[p].pc # "idle" => proc'[p].did = proc[p].did
            /\ (proc'[p].pc = "idle" /\ last'.sent # <<>>) =>
                  last'.sent[1].deviceId = proc[p].did

\* C8: under any interleaving of SetDefaultDeviceID with dispatches, an
\* explicit id is the id sent; a dispatch without one sends one value the
\* default was set to, never a half-written one; and a SetDefaultDeviceID
\* after the id was resolved does not change what the dispatch sends.
C8_DeviceIDStable == []C8_State /\ [][C8_Step]_vars

\* A dispatch in flight goes by the default it resolved, which
\* SetDefaultDeviceID has replaced since.
C8_Witness ==
    \E p \in Dispatching :
        /\ proc[p].pc = "http"
        /\ Blank(proc[p].req.DeviceID)
        /\ proc[p].did = <<"D">>
        /\ defaultDevice = <<"E", "E">>
        /\ cmu = NoProc

\* A request with a device id that resolves and no image source at all.
C9_NoSource(q) ==
    /\ q.kind = "image"
    /\ ~(Blank(q.req.DeviceID) /\ Blank(q.defRead))
    /\ Blank(q.req.Image)
    /\ Len(q.req.ImageBytes) = 0
    /\ Blank(q.req.ImagePath)

\* C9: a SendImage with no pre-encoded image, no bytes and no path, and a
\* device id that resolves, fails with ErrImagePayloadMissing and makes no
\* network call.
C9_NoPayloadFails ==
    /\ \A p \in Dispatching : proc[p].pc # "idle" => ~C9_NoSource(proc[p])
    /\ C9_NoSource(last) =>
          /\ last.ret = ErrImagePayloadMissing
          /\ last.nHttp = 0
          /\ last.sent = <<>>

\* A request whose image and path are blank, not empty, failed so.
C9_Witness ==
    /\ C9_NoSource(last)
    /\ last.req.Image = <<" ">>
    /\ last.req.ImagePath = <<" ">>
    /\ last.ret = ErrImagePayloadMissing

\* The image source of the call q, by precedence; done says that q returned.
C10_Precedence(q, done) ==
    LET r == q.req
    IN  (q.kind = "image" /\ ~(Blank(r.DeviceID) /\ Blank(q.defRead))) =>
          /\ ~Blank(r.Image) => (q.image = r.Image /\ q.nRead = 0)
          /\ (Blank(r.Image) /\ Len(r.ImageBytes) > 0) =>
                (q.image = encodeBase64(r.ImageBytes) /\ q.nRead = 0)
          /\ (Blank(r.Image) /\ Len(r.ImageBytes) = 0
                /\ ~Blank(r.ImagePath)) =>
                /\ q.nRead = 1
                /\ IF Trimmed(r.ImagePath) \in DOMAIN Files
                   THEN q.image = encodeBase64(Files[Trimmed(r.ImagePath)])
                   ELSE /\ done
                        /\ q.ret = ReadErr
                        /\ q.nWait = 0
                        /\ q.nHttp = 0
          /\ q.sent # <<>> => q.sent[1].image = q.image

\* C10: SendImage takes the image by strict precedence: a non-blank Image
\* is sent as it is and the file is not read; else non-empty ImageBytes are
\* base64-encoded and the file is not read; else a non-blank ImagePath is
\* read and its bytes encoded, a read failure failing the dispatch before the
\* limiter and the network.
C10_ImagePrecedence ==
    /\ \A p \in Dispatching :
          proc[p].pc # "idle" => C10_Precedence(proc[p], FALSE)
    /\ C10_Precedence(last, TRUE)

\* A request with all three sources set, the path unreadable, was sent with
\* the Image field as given.
C10_Witness ==
    /\ last.kind = "image"
    /\ last.sent # <<>>
    /\ last.req.Image = <<" ", "Q", "Q", "=", "=">>
    /\ Len(last.req.ImageBytes) > 0
    /\ last.req.ImagePath = <<"x">>
    /\ last.sent[1].image = <<" ", "Q", "Q", "=", "=">>

\* Known base64 encodings (RFC 4648), by byte sequence.
KnownBase64 ==
    (<<137, 80>> :> <<"i", "V", "A", "=">>)
    @@ (<<137, 80, 78, 71>> :> <<"i", "V", "B", "O", "R", "w", "=", "=">>)

\* The request r gives the bytes b in exactly one of the three input forms.
C11_Form(r, b) ==
    \/ /\ r.ImageBytes = b
       /\ r.Image = <<>> /\ r.ImagePath = <<>>
    \/ /\ Trimmed(r.ImagePath) \in DOMAIN Files
       /\ Files[Trimmed(r.ImagePath)] = b
       /\ r.Image = <<>> /\ r.ImageBytes = <<>>
    \/ /\ r.Image = KnownBase64[b]
       /\ r.ImageBytes = <<>> /\ r.ImagePath = <<>>

\* C11: for a byte sequence b, a SendImage with ImageBytes = b, one with
\* ImagePath naming a file of content b and one with Image = base64(b) put
\* the same image field on the wire, the base64 encoding of b.
C11_FormsEquivalent ==
    \A b \in DOMAIN KnownBase64 :
        (last.kind = "image" /\ last.sent # <<>> /\ C11_Form(last.req, b)) =>
            last.sent[1].image = KnownBase64[b]

\* A dispatch that named a file was sent with the encoding that a dispatch
\* with the Image field and one with ImageBytes carry for the same bytes.
C11_Witness ==
    /\ last.kind = "image"
    /\ last.sent # <<>>
    /\ last.req.ImagePath = <<" ", "f">>
    /\ C11_Form(last.req, <<137, 80>>)
    /\ last.sent[1].image = <<"i", "V", "A", "=">>

\* C12: SendImageFile sends the encoding of the file at path and
\* SendImageBytes the encoding of png, whatever image source meta carries.
C12_WrapperSendsArgument ==
    (last.kind = "image" /\ last.sent # <<>>) =>
        /\ last.call.fn = "SendImageFile" =>
              /\ last.call.arg \in DOMAIN Files
              /\ last.sent[1].image = encodeBase64(Files[last.call.arg])
        /\ last.call.fn = "SendImageBytes" =>
              last.sent[1].image = encodeBase64(last.call.arg)

\* The last call that returned got a response to its request.
Answered == LastDispatch /\ last.resp # NoResponse

Is2xx(st) == st >= 200 /\ st <= 299

\* C13, as stated: a response with a status outside 200..299 makes the
\* dispatch fail with an APIError of that status and the body as RawBody,
\* and no response with a status inside 200..299 yields an error.
C13_StatusDecidesOutcome ==
    Answered =>
        IF Is2xx(last.resp.status)
        THEN last.ret = ErrNil
        ELSE /\ last.ret = APIErr
             /\ last.apiErr.StatusCode = last.resp.status
             /\ last.apiErr.RawBody = last.resp.body

\* C13, amended: so it is for every response whose body was read without
\* error; a response whose body could not be read makes the dispatch fail
\* with an error that is no APIError, whatever its status.
C13_StatusDecidesOutcomeOfReadBody ==
    Answered =>
        IF ~last.resp.readOK
        THEN last.ret = ReadBodyErr /\ last.apiErr = NoAPIError
        ELSE IF Is2xx(last.resp.status)
        THEN last.ret = ErrNil /\ last.apiErr = NoAPIError
        ELSE /\ last.ret = APIErr
             /\ last.apiErr.StatusCode = last.resp.status
             /\ last.apiErr.RawBody = last.resp.body

\* A 403 whose body, padded with white space, is no valid JSON.
C13_Witness ==
    /\ Answered
    /\ last.resp.readOK
    /\ last.resp.status = 403
    /\ last.resp.body = <<" ", "{", "x", ",", "}", " ">>
    /\ last.ret = APIErr
    /\ last.apiErr.RawBody = last.resp.body

\* The members of a JSON object the body b holds, if it holds one: b is a
\* brace, members joined by commas and a brace, with white space around.
ObjectsIn(b) ==
    {ms \in MemberSeqs \cup Envelopes :
        Trimmed(b) = <<"{">> \o Join(ms) \o <<"}">>}

\* The value of the key k in the object of the members ms: that of the last
\* member with the key, or none.
NoValue == [key |-> "", type |-> "none", str |-> <<>>, num |-> 0]

ValueOf(ms, k) ==
    LET idx == {i \in 1..Len(ms) : MemberText[ms[i]].key = k}
    IN  IF idx = {} THEN NoValue
        ELSE MemberText[ms[CHOOSE i \in idx : \A j \in idx : j <= i]]

\* C14: buildAPIError takes the message of a body that is a JSON object
\* from its message field if that is a string and not empty, else from its
\* error field if that is one, else it is the trimmed body; of every other
\* body the message is the trimmed body and the code is empty.
C14_ErrorMessageRule ==
    (Answered /\ last.ret = APIErr) =>
        LET b == last.resp.body
        IN  IF ObjectsIn(b) = {}
            THEN /\ last.apiErr.Message = Trimmed(b)
                 /\ last.apiErr.Code = <<>>
            ELSE \A ms \in ObjectsIn(b) :
                    last.apiErr.Message =
                        IF ValueOf(ms, "message").str # <<>>
                        THEN ValueOf(ms, "message").str
                        ELSE IF ValueOf(ms, "error").str # <<>>
                        THEN ValueOf(ms, "error").str
                        ELSE Trimmed(b)

\* An object with an empty message and an error: the error is the message.
C14_Witness ==
    /\ Answered
    /\ last.ret = APIErr
    /\ last.resp.body =
          <<" ", "{", "\"message\":\"\"", ",", "\"error\":\"no\"", "}">>
    /\ last.apiErr.Message = <<"n", "o">>

\* C15: of the error of a dispatch, IsRateLimitError holds exactly when it
\* is an API error of a response with status 429, IsAuthError exactly when
\* it is one of a response with status 401 or 403; for other statuses and
\* other errors neither holds, and they never hold both.
C15_Classification ==
    (LastDispatch /\ last.ret # ErrNil) =>
        LET err == ErrorOf(last)
            api == Answered /\ last.resp.readOK /\ ~Is2xx(last.resp.status)
        IN  /\ IsRateLimitError(err) <=> (api /\ last.resp.status = 429)
            /\ IsAuthError(err) <=> (api /\ last.resp.status \in {401, 403})
            /\ ~(IsRateLimitError(err) /\ IsAuthError(err))

\* A 403 is an authentication failure and no rate limit.
C15_Witness ==
    /\ Answered
    /\ last.resp.status = 403
    /\ IsAuthError(ErrorOf(last))
    /\ ~IsRateLimitError(ErrorOf(last))

\* The envelopes with a numeric code that the body b is, if it is one.
EnvelopesIn(b) ==
    {ms \in ObjectsIn(b) :
        /\ ms \in Envelopes
        /\ ValueOf(ms, "code").type = "number"}

\* The body was read and the status is inside 200..299.
Success2xx == Answered /\ last.resp.readOK /\ Is2xx(last.resp.status)

\* C16, as stated: a text dispatch answered with a 2xx status and an
\* envelope {code, message, result} succeeds, and the Code and Message
\* returned are those of the envelope.
C16_EnvelopeReturned ==
    (Success2xx /\ last.kind = "text") =>
        \A ms \in EnvelopesIn(last.resp.body) :
            /\ last.ret = ErrNil
            /\ last.out.Code = ValueOf(ms, "code").num
            /\ last.out.Message = ValueOf(ms, "message").str

\* The Content-Type headers that declare application/json.
DeclaresJSON(ct) ==
    ct \in {<<"application/json">>, <<"Application/JSON", "; charset=utf-8">>}

\* C16, amended: so it is when the response declares application/json as
\* its Content-Type.
C16_DeclaredEnvelopeReturned ==
    (Success2xx /\ last.kind = "text" /\ DeclaresJSON(last.resp.ctype)) =>
        \A ms \in EnvelopesIn(last.resp.body) :
            /\ last.ret = ErrNil
            /\ last.out.Code = ValueOf(ms, "code").num
            /\ last.out.Message = ValueOf(ms, "message").str

\* An envelope declared in capitals, with a parameter, was decoded.
C16_Witness ==
    /\ Success2xx
    /\ last.kind = "text"
    /\ last.resp.ctype = <<"Application/JSON", "; charset=utf-8">>
    /\ EnvelopesIn(last.resp.body) # {}
    /\ last.out.Code = 7
    /\ last.out.Message = <<"h", "i">>

\* The objects the body b is that decode into an APIResponse: no code that
\* is a string.
DecodableIn(b) ==
    {ms \in ObjectsIn(b) :
        \A i \in 1..Len(ms) : ms[i] # "\"code\":\" x \""}

\* C17: on a 2xx response the status and the raw body are kept; an empty
\* body gives an empty message and result; a body that is not empty is the
\* decoded envelope if the Content-Type declares application/json and the
\* body decodes, and otherwise the message is the trimmed body.
C17_SuccessBranches ==
    Success2xx =>
        LET b == last.resp.body
        IN  /\ last.ret = ErrNil
            /\ last.out.StatusCode = last.resp.status
            /\ last.out.RawBody = b
            /\ IF Len(b) = 0
               THEN /\ last.out.Message = <<>>
                    /\ last.out.Result = <<>>
               ELSE IF DeclaresJSON(last.resp.ctype) /\ DecodableIn(b) # {}
               THEN \A ms \in DecodableIn(b) :
                       /\ last.out.Code = ValueOf(ms, "code").num
                       /\ last.out.Message = ValueOf(ms, "message").str
                       /\ last.out.Result = ValueOf(ms, "result").str
               ELSE last.out.Message = Trimmed(b)

\* A valid object under Content-Type text/plain is returned as text.
C17_Witness ==
    /\ Success2xx
    /\ last.resp.ctype = <<"text/plain">>
    /\ last.resp.body = <<"{", "\"message\":\"hi\"", "}", " ">>
    /\ last.out.Message = <<"{", "\"message\":\"hi\"", "}">>
    /\ last.out.RawBody = last.resp.body

\* The key k is absent from body when the field is unset, and carries the
\* value v of the field when it is set.
OptionalKey(body, k, v, unset) ==
    IF unset THEN k \notin DOMAIN body
    ELSE k \in DOMAIN body /\ body[k] = v

\* C18: in the request body of a dispatch every optional field left unset
\* is absent as a key, a field that is set is there with its value, and
\* deviceId is always there.
C18_OmitEmpty ==
    (LastDispatch /\ last.sent # <<>>) =>
        LET body == last.sent[1]
            r == last.req
        IN  /\ "deviceId" \in DOMAIN body
            /\ OptionalKey(body, "refreshNow", r.RefreshNow,
                           r.RefreshNow = "nil")
            /\ OptionalKey(body, "link", r.Link, Len(r.Link) = 0)
            /\ \A k \in DOMAIN body : k = "refreshNow" \/ k = "border"
                                        \/ body[k] # <<>>
            /\ last.kind = "text" =>
                  /\ OptionalKey(body, "title", r.Title, Len(r.Title) = 0)
                  /\ OptionalKey(body, "message", r.Message,
                                 Len(r.Message) = 0)
                  /\ OptionalKey(body, "signature", r.Signature,
                                 Len(r.Signature) = 0)
                  /\ OptionalKey(body, "icon", r.Icon, Len(r.Icon) = 0)
            /\ last.kind = "image" =>
                  /\ "image" \in DOMAIN body
                  /\ OptionalKey(body, "ditherType", r.DitherType,
                                 Len(r.DitherType) = 0)
                  /\ OptionalKey(body, "ditherKernel", r.DitherKernel,
                                 Len(r.DitherKernel) = 0)

\* A text request with a blank title, a signature and a false refreshNow,
\* nothing else: the body holds these and the device id.
C18_Witness ==
    /\ last.kind = "text"
    /\ last.sent # <<>>
    /\ last.req.Title = <<" ">>
    /\ last.req.RefreshNow = "false"
    /\ DOMAIN last.sent[1] = {"deviceId", "title", "signature", "refreshNow"}

\* The device id of the call q resolves.
Resolves(q) == ~(Blank(q.req.DeviceID) /\ Blank(q.defRead))

C20_TrimmedToken ==
    /\ newClient.err = (IF Blank(newClient.token) THEN ErrTokenRequired
                        ELSE ErrNil)
    /\ newClient.err # ErrNil =>
          /\ \A p \in Procs : proc[p] = IdleProc
          /\ last = IdleProc
          /\ wire = NoRequest
    /\ newClient.err = ErrNil =>
          /\ newClient.apiKey = Trimmed(newClient.token)
          /\ \A p \in Procs : proc[p].sent # <<>> =>
                proc[p].auth = <<"Bearer", " ">> \o Trimmed(newClient.token)
          /\ last.sent # <<>> =>
                last.auth = <<"Bearer", " ">> \o Trimmed(newClient.token)

\* A token with white space around and inside it: the request sent carries
\* it without the white space around it.
C20_Witness ==
    /\ newClient.token = <<" ", "k", " ", "y", " ">>
    /\ opt.limiter = "nil"
    /\ last.sent # <<>>
    /\ last.auth = <<"Bearer", " ", "k", " ", "y">>

\* The outcomes a dispatch reports to its caller.
Outcomes ==
    {ErrNil, APIErr, TransportErr, ReadBodyErr, CtxErr, ErrDeviceIDMissing,
     ErrImagePayloadMissing, ReadErr}

C21_State ==
    /\ \A p \in Dispatching :
          /\ proc[p].nWait <= 1
          /\ proc[p].nHttp = 0
          /\ proc[p].ret = "none"
    /\ LastDispatch =>
          /\ last.nWait <= 1
          /\ last.nHttp <= 1
          /\ last.ret \in Outcomes
          /\ last.ret \in {ErrNil, APIErr, TransportErr, ReadBodyErr} <=>
                last.nHttp = 1
          /\ last.ret = CtxErr => (last.nWait = 1 /\ last.nHttp = 0)

\* A dispatch in flight either stays in flight, never going back to a step
\* it has passed, or returns, and what it returns is what its caller gets.
C21_Step ==
    \A p \in Dispatching :
        proc[p].pc # "idle" =>
            \/ /\ proc'[p].pc # "idle"
               /\ last' = last \/ last'.by # p
               /\ proc'[p].kind = proc[p].kind
               /\ proc'[p].nWait = proc[p].nWait
               /\ proc'[p].nHttp = proc[p].nHttp
               /\ proc[p].pc = "http" => proc'[p].pc = "http"
               /\ proc[p].pc = "select" => proc'[p].pc \in {"select", "http"}
            \/ /\ proc'[p] = IdleProc
               /\ last'.by = p
               /\ last'.kind = proc[p].kind
               /\ last'.nWait = proc[p].nWait

\* C21: no dispatch is retried.  A SendText or SendImage calls the limiter's
\* Wait at most once and c.http.Do at most once whatever the outcome, and
\* returns once, with that outcome.
C21_NoRetry == []C21_State /\ [][C21_Step]_vars

\* A dispatch waited for its slot, made its one request and reported the
\* failure of the transport.
C21_Witness ==
    /\ LastDispatch
    /\ last.ret = TransportErr
    /\ last.nWait = 1
    /\ last.nHttp = 1
    /\ Len(sched) = TimingCalls

C22_State ==
    opt.limiter = "nil" =>
        /\ limiter = "nil"
        /\ next = 0
        /\ sched = <<>>
        /\ \A p \in Dispatching :
              /\ proc[p].pc \in {"idle", "http"}
              /\ proc[p].nWait = 0
        /\ LastDispatch =>
              /\ last.nWait = 0
              /\ last.waitRet = "none"
              /\ last.ret \in {ErrNil, APIErr, TransportErr, ReadBodyErr}

\* A dispatch that starts is at the HTTP request in the same step.
C22_Step ==
    opt.limiter = "nil" =>
        \A p \in Procs :
            (proc[p].pc = "idle" /\ proc'[p].pc # "idle") =>
                proc'[p].pc = "http"

\* C22: a client built with WithRateLimiter(nil) does not throttle: a
\* dispatch that passed validation is at the HTTP request at once, Wait is
\* never called and no slot is assigned, so nothing spaces the requests.
C22_NilLimiterNoWait == []C22_State /\ [][C22_Step]_vars

\* Two requests of one client reached the network at the same instant.
C22_Witness ==
    /\ opt.limiter = "nil"
    /\ LastDispatch
    /\ last.sent # <<>>
    /\ last.gap # NoGap
    /\ last.gap.at = 0

\* The limiter was made by NewFixedIntervalLimiter(d) with d <= 0.
C23_NonPositive == opt.limiter = "fixed" /\ opt.interval <= 0

C23_State ==
    C23_NonPositive =>
        /\ limiter = "fixed"
        /\ minInterval = Second
        /\ \A i, j \in 1..Len(sched) : i < j => sched[j] - sched[i] >= Second
        /\ Len(sched) > 0 => next = sched[Len(sched)] + Second

\* The first Wait to take a slot, its context live, returns nil in that step.
C23_Step ==
    (C23_NonPositive /\ sched = <<>> /\ sched' # <<>>) =>
        \A p \in Procs :
            (mu = p /\ ~proc[p].ctxDone) =>
                /\ sched' = <<now>>
                /\ proc'[p] = IdleProc
                /\ last'.by = p
                /\ last'.ret = ErrNil

\* C23: NewFixedIntervalLimiter(d) with d <= 0 gives a limiter whose
\* interval is one second, not none: its slots lie a second apart, and its
\* first Wait on a live context returns nil at once.
C23_NonPositiveCoerced == []C23_State /\ [][C23_Step]_vars

\* The limiter made with a negative interval let its first caller through
\* and put the second one a second later.
C23_Witness ==
    /\ opt.limiter = "fixed"
    /\ opt.interval < 0
    /\ Len(sched) = 2
    /\ sched[2] = sched[1] + Second
    /\ last.kind = "wait"
    /\ last.ret = ErrNil
    /\ \E p \in Procs : proc[p].pc = "select"

\* The step at which the dispatch that returned last failed, if it failed
\* for something other than the status of the response.
C24_FailedBeforeLimiter == LastDispatch /\ last.nWait = 0 /\ last.nHttp = 0
C24_FailedInLimiter == LastDispatch /\ last.waitRet = CtxErr
C24_FailedInTransport == LastDispatch /\ last.nHttp = 1 /\ last.sent = <<>>
C24_FailedReadingBody ==
    LastDispatch /\ last.sent # <<>> /\ ~last.resp.readOK

C25_MutexNotHeldAsleep ==
    /\ mu # NoProc => (mu \in Procs /\ proc[mu].pc = "crit")
    /\ \A p \in Procs :
          /\ proc[p].pc = "crit" => mu = p
          /\ proc[p].pc = "select" => mu # p
          /\ (proc[p].pc = "lock" /\ mu = NoProc) => ENABLED WaitLock(p)

\* While one caller sleeps ahead of its slot, another holds the mutex.
C25_Witness ==
    \E p, q \in Procs :
        /\ proc[p].pc = "select"
        /\ now < proc[p].deadline
        /\ proc[q].pc = "crit"
        /\ mu = q

\* The stored instant stands one interval after the slot assigned last.
C26_State ==
    Len(sched) > 0 => next = sched[Len(sched)] + minInterval

\* The step in which a sleeping Wait returns the context's error changes
\* nothing of the limiter and nothing of the other callers.
C26_Step ==
    \A p \in Procs :
        (proc[p].pc = "select" /\ proc'[p].pc = "idle"
         /\ last'.by = p /\ last'.waitRet = CtxErr) =>
            /\ UNCHANGED <<next, mu, sched, minInterval>>
            /\ \A q \in Procs \ {p} : proc'[q] = proc[q]

\* C26: a Wait that ends in cancellation writes nothing on its way out: the
\* slots of the other waiters and the stored next instant stay as they were,
\* so the cancelled slot is not handed back and the next caller is put one
\* interval after it.
C26_CancelWritesNothing == []C26_State /\ [][C26_Step]_vars

\* The second of three callers was cancelled ahead of its slot; the third
\* sleeps for the slot one interval after the cancelled one.
C26_Witness ==
    /\ Len(sched) = 3
    /\ now < sched[2]
    /\ sched[3] = sched[2] + minInterval
    /\ last.kind = "wait"
    /\ last.waitRet = CtxErr
    /\ Cardinality({p \in Procs : proc[p].pc # "idle"}) = 1
    /\ \E p \in Procs : proc[p].pc = "select" /\ proc[p].deadline = sched[3]

\* The later of two instants.
Max(a, b) == IF a >= b THEN a ELSE b

\* A caller asleep sleeps until its slot, and can go on once it has come.
C27_State ==
    \A p \in Procs :
        proc[p].pc = "select" =>
            /\ proc[p].deadline = proc[p].start
            /\ \E i \in 1..Len(sched) : sched[i] = proc[p].start
            /\ now >= proc[p].start => ENABLED WaitTimer(p)

\* The step out of the critical section: the slot is the later of the
\* instant read and the stored one, the stored one becomes the slot plus the
\* interval, and the call returns nil in this step unless the slot lies
\* ahead.
C27_Step ==
    \A p \in Procs :
        (proc[p].pc = "crit" /\ proc'[p].pc # "crit") =>
            LET slot == Max(now, next)
            IN  /\ sched' = Append(sched, slot)
                /\ next' = slot + minInterval
                /\ IF next = 0 \/ now >= next
                   THEN /\ proc'[p] = IdleProc
                        /\ last'.by = p
                        /\ last'.wait = 0
                        /\ last'.ret = ErrNil
                   ELSE /\ proc'[p].pc = "select"
                        /\ proc'[p].start = slot
                        /\ proc'[p].wait = slot - now
                        /\ last' = last

\* C27: the slot of a Wait is max(the instant it reads, the stored next
\* instant), and the stored instant becomes the slot plus the interval; on
\* a fresh limiter, or once the stored instant has passed, the call returns
\* at once, and a call that sleeps sleeps to its slot and no longer.
C27_SlotIsMax == []C27_State /\ [][C27_Step]_vars

\* The second call came after the stored instant had passed: its slot is
\* the instant it came at, and it returned nil there.
C27_Witness ==
    /\ Len(sched) = 2
    /\ sched[2] > sched[1] + minInterval
    /\ sched[2] = now
    /\ next = now + minInterval
    /\ last.kind = "wait"
    /\ last.ret = ErrNil
    /\ \A p \in Procs : proc[p].pc = "idle"

\* A call that returns while its context is live returns nil.
C28_Step ==
    \A p \in Procs :
        (proc[p].pc # "idle" /\ proc'[p].pc = "idle" /\ ~proc[p].ctxDone) =>
            (last'.by = p /\ last'.ret = ErrNil)

\* C28: every Wait terminates.  With a fair scheduler and a clock that goes
\* on, a call at any step of Wait returns, whatever the other callers do and
\* whether its context is cancelled or not; and it returns nil unless its
\* context was cancelled.
C28_WaitTerminates ==
    /\ \A p \in Procs : (proc[p].pc # "idle") ~> (proc[p].pc = "idle")
    /\ [][C28_Step]_vars

\* Two callers asleep at once, one of them cancelled, none has returned yet.
C28_Witness ==
    \E p, q \in Procs :
        /\ p # q
        /\ proc[p].pc = "select" /\ proc[p].ctxDone
        /\ proc[q].pc = "select" /\ ~proc[q].ctxDone
        /\ now < proc[q].deadline

\* The request of the call q passes what SendText and SendImage check
\* before doJSON: the device id resolves, and an image request has an image,
\* bytes, or a path to a file that can be read and is not empty.
C29_Passes(q) ==
    /\ ~(Blank(q.req.DeviceID) /\ Blank(q.defRead))
    /\ q.kind = "image" =>
          \/ ~Blank(q.req.Image)
          \/ Len(q.req.ImageBytes) > 0
          \/ /\ Trimmed(q.req.ImagePath) \in DOMAIN Files
             /\ Len(Files[Trimmed(q.req.ImagePath)]) > 0

C29_State ==
    /\ \A p \in Dispatching : proc[p].pc # "idle" => C29_Passes(proc[p])
    /\ (LastDispatch /\ ~C29_Passes(last)) =>
          /\ last.ret \in {ErrDeviceIDMissing, ErrImagePayloadMissing, ReadErr}
          /\ last.nWait = 0
          /\ last.nHttp = 0
          /\ last.sent = <<>>
    /\ (LastDispatch /\ C29_Passes(last)) => last.nWait = 1
    /\ Len(sched) = 1 => \A p \in Procs : proc[p].pc # "select"

\* A dispatch that does not pass returns in the step it starts in, and the
\* step leaves the limiter and the network as they were; a slot is assigned
\* to a dispatch that passed, only.
C29_Step ==
    /\ (budget' < budget /\ proc' = proc) =>
          /\ ~C29_Passes(last')
          /\ UNCHANGED <<next, mu, sched, wire, now>>
    /\ (budget' < budget /\ proc' # proc) =>
          \E p \in Procs : proc'[p].pc = "lock" /\ C29_Passes(proc'[p])
    /\ sched' # sched =>
          \E p \in Procs : mu = p /\ C29_Passes(proc[p])

\* C29: a dispatch that fails before the limiter step leaves the schedule
\* of the limiter as it was.  A missing device id, a missing image payload
\* and an image file that cannot be read never get to Wait, take no slot and
\* so do not delay the dispatch that comes next.
C29_FailedPrecheckTakesNoSlot == []C29_State /\ [][C29_Step]_vars

\* After a dispatch that failed before the limiter, the next one got the
\* first slot of the limiter, at the instant it came, and went out.
C29_Witness ==
    /\ budget = FailureCalls - 2
    /\ sched = <<now>>
    /\ wire = [at |-> now, slot |-> now]
    /\ last.kind = "text"
    /\ last.sent # <<>>
    /\ last.gap = NoGap

\* C30: whatever value WithBaseURL was given, the base URL of the client
\* NewClient returns is not empty and does not end in "/", and the URL of
\* every request is that base URL followed by the path of the endpoint.
C30_BaseURLSane ==
    newClient.err = ErrNil =>
        /\ baseURL.url # <<>>
        /\ baseURL.url[Len(baseURL.url)] # "/"
        /\ Blank(baseURL.arg) => baseURL.url = DefaultBaseURL
        /\ (LastDispatch /\ last.sent # <<>>) =>
              /\ Len(last.url) >= 2
              /\ last.url =
                    baseURL.url
                    \o <<IF last.kind = "text" THEN "/api/open/text"
                         ELSE "/api/open/image">>

====
